---- MODULE Spec2Model ----
(***************************************************************************)
(* A model of search_qutil_tx.py: the rate-limited fetch client            *)
(* (polite_get), the heuristic payload decoder (decode_qutil_outputs), the *)
(* progress and match stores (load_state, save_state, append_match) and    *)
(* the scan driver (scan).                                                 *)
(*                                                                         *)
(* Representation of Python values:                                        *)
(*   bytes    a sequence of integers 0..255                                *)
(*   str      a sequence of one-character strings; the string "U+00E9"     *)
(*            stands for the single non-ASCII character e-acute            *)
(*   int      ticks and counters are integers; a value read by             *)
(*            int.from_bytes (up to 2^64-1) is a little-endian sequence of *)
(*            base-256 digits without leading zeros (<<>> is 0), because   *)
(*            it does not fit the model checker's integers                 *)
(***************************************************************************)
EXTENDS Integers, Sequences, FiniteSets, TLC

VARIABLES
    \* ---- configuration, fixed when the process starts ----
    START_TICK,     \* config.START_TICK
    END_TICK,       \* config.END_TICK
    QUTIL_DEST_ID,  \* the destination filter, or None
    \* ---- durable files ----
    stateFile,      \* STATE_FILE (progress.json)
    resultsFile,    \* RESULTS_FILE (matches.json)
    \* ---- the scanning process ----
    pc,             \* where scan() is
    state,          \* scan's dict `state`
    tick,           \* scan's cursor
    wraps,          \* the list get_tick_transactions returned
    widx,           \* position of `for w in wraps`
    outputs,        \* the list decode_qutil_outputs returned
    oidx,           \* position of `for pk, amt in outputs`
    pending,        \* append_match's list `existing`, between open and dump
    attempt,        \* polite_get's attempt counter
    resp,           \* the response polite_get returned, until it is parsed
    \* ---- history (not read by the program) ----
    run,            \* how many times the process was started again
    cursor0,        \* the cursor this run started from
    fetchLog,       \* ticks get_tick_transactions was called for, this run
    saveLog,        \* next_tick values save_state finished writing, this run
    reqCount,       \* requests polite_get issued in the current call
    lastReq,        \* outcome of the latest request of the current call
    txAppends,      \* records append_match was called with, for the current tx
    decodedSet,     \* positions in wraps of the txs decoded so far, this tick
    offClass,       \* the current call saw a status of 600 or more
    failedTicks,    \* ticks whose get_tick_transactions raised, this run
    runAppends,     \* calls of append_match, this run
    resultsBefore,  \* what the results file held when append_match was entered
    everFetched,    \* ticks fetched in any run
    completed,      \* ticks whose save_state finished, in any run
    fellBack,       \* this run's load_state fell back to the default
    refetched,      \* a completed tick was fetched again without a fall back
    \* ---- decoder harness ----
    input_hex,      \* the inputHex string handed to decode_qutil_outputs
    dec_result,     \* what the call did: pending, returned a list, or raised
    in_shape,       \* how input_hex was built (history only)
    tail_result,    \* what find_tail_amounts returned inside that call
    \* ---- rate limiter harness ----
    now,            \* time.monotonic(), in tenths of a second
    last_request,   \* _last_request
    wait,           \* _rate_limit's local `wait`
    rl_pc,          \* where the caller of _rate_limit is
    stamps,         \* history: the latest two values _last_request was set to
    reqTimes,       \* history: start and end of the latest two requests
    \* ---- backoff harness ----
    bo_pc,          \* where the observed call of polite_get is
    bo_attempt,     \* its local `attempt`
    bo_last         \* its latest fault and the sleep that followed

cfgVars  == <<START_TICK, END_TICK, QUTIL_DEST_ID>>
fileVars == <<stateFile, resultsFile>>
procVars == <<pc, state, tick, wraps, widx, outputs, oidx, pending, attempt, resp>>
loopVars == <<wraps, widx, outputs, oidx, pending>>
callVars == <<reqCount, lastReq, offClass>>
txVars   == <<txAppends, decodedSet, resultsBefore>>
runVars  == <<cursor0, fetchLog, saveLog, failedTicks, runAppends>>
allVars  == <<run, everFetched, completed, fellBack, refetched>>
histVars == <<callVars, txVars, runVars, allVars>>
scanVars == <<cfgVars, fileVars, procVars, histVars>>
decVars  == <<input_hex, dec_result, in_shape, tail_result>>
rateVars == <<now, last_request, wait, rl_pc, stamps, reqTimes>>
backVars == <<bo_pc, bo_attempt, bo_last>>
harnessVars == <<decVars, rateVars, backVars>>
vars     == <<scanVars, decVars, rateVars, backVars>>

----------------------------------------------------------------------------
\* Helpers on sequences

Min(a, b) == IF a < b THEN a ELSE b
Max(a, b) == IF a > b THEN a ELSE b

Rep(x, n) == [i \in 1..n |-> x]

Reverse(s) == [i \in 1..Len(s) |-> s[Len(s) + 1 - i]]

\* Python's s[a:b] (zero-based, end-exclusive, negative indices count from
\* the end, out-of-range indices are clamped).
PySlice(s, a, b) ==
    LET n  == Len(s)
        lo == IF a < 0 THEN Max(0, n + a) ELSE Min(a, n)
        hi == IF b < 0 THEN Max(0, n + b) ELSE Min(b, n)
    IN  IF lo < hi THEN SubSeq(s, lo + 1, hi) ELSE <<>>

----------------------------------------------------------------------------
\* Unbounded non-negative integers: little-endian base-256 digits.

RECURSIVE Normalize(_)
Normalize(d) ==
    IF Len(d) > 0 /\ d[Len(d)] = 0 THEN Normalize(SubSeq(d, 1, Len(d) - 1)) ELSE d

BigZero == <<>>

BigLt(a, b) ==
    \/ Len(a) < Len(b)
    \/ /\ Len(a) = Len(b)
       /\ \E i \in 1..Len(a) :
            /\ a[i] < b[i]
            /\ \A j \in (i + 1)..Len(a) : a[j] = b[j]

RECURSIVE BigMulAdd(_, _, _)
\* a * m + c, for small m and c
BigMulAdd(a, m, c) ==
    IF Len(a) = 0
    THEN (IF c = 0 THEN <<>> ELSE <<c % 256>> \o BigMulAdd(<<>>, m, c \div 256))
    ELSE LET t == a[1] * m + c
         IN  <<t % 256>> \o BigMulAdd(Tail(a), m, t \div 256)

IntToBig(n) == Normalize(BigMulAdd(<<>>, 1, n))

RECURSIVE BigPow(_, _)
BigPow(b, e) == IF e = 0 THEN <<1>> ELSE Normalize(BigMulAdd(BigPow(b, e - 1), b, 0))

RECURSIVE BigDivMod(_, _)
\* <<quotient, remainder>> of a by a small m; the quotient is not normalized
BigDivMod(a, m) ==
    IF Len(a) = 0 THEN <<(<<>>), 0>>
    ELSE LET hi  == BigDivMod(Tail(a), m)
             cur == hi[2] * 256 + a[1]
         IN  <<(<<cur \div m>> \o hi[1]), cur % m>>

RECURSIVE BigPred(_)
\* a - 1, for a > 0
BigPred(a) ==
    IF a[1] > 0 THEN Normalize(<<a[1] - 1>> \o Tail(a))
    ELSE <<255>> \o BigPred(Tail(a))

\* Fixed-width little-endian encoding (int.to_bytes(w, "little"))
ToBytesLittle(x, w) == [i \in 1..w |-> IF i <= Len(x) THEN x[i] ELSE 0]

----------------------------------------------------------------------------
\* binascii.unhexlify and bytes.hex

NonAsciiChar == "U+00E9"

LowerHex == <<"0", "1", "2", "3", "4", "5", "6", "7", "8", "9",
              "a", "b", "c", "d", "e", "f">>
UpperHex == <<"0", "1", "2", "3", "4", "5", "6", "7", "8", "9",
              "A", "B", "C", "D", "E", "F">>

HexDigits == {LowerHex[v] : v \in 1..16} \cup {UpperHex[v] : v \in 1..16}

IsHexChar(c) == c \in HexDigits

\* the value of each hexadecimal digit, either case
HexValue == [c \in HexDigits |-> (CHOOSE v \in 1..16 : LowerHex[v] = c \/ UpperHex[v] = c) - 1]

HexVal(c) == HexValue[c]

\* binascii.unhexlify(s) for a str argument: a non-ASCII character is a
\* ValueError, an odd length or a non-hexadecimal digit is a binascii.Error.
unhexlify(s) ==
    IF \E i \in 1..Len(s) : s[i] = NonAsciiChar
    THEN [exc |-> "ValueError", raw |-> <<>>]
    ELSE IF Len(s) % 2 = 1 \/ \E i \in 1..Len(s) : ~IsHexChar(s[i])
    THEN [exc |-> "binascii.Error", raw |-> <<>>]
    ELSE [exc |-> "none",
          raw |-> [i \in 1..(Len(s) \div 2) |->
                      16 * HexVal(s[2 * i - 1]) + HexVal(s[2 * i])]]

\* bytes.hex(): two lowercase digits per byte
BytesHex(b) ==
    [i \in 1..(2 * Len(b)) |->
        IF i % 2 = 1 THEN LowerHex[(b[(i + 1) \div 2] \div 16) + 1]
                     ELSE LowerHex[(b[i \div 2] % 16) + 1]]

----------------------------------------------------------------------------
\* find_tail_amounts and decode_qutil_outputs

AMOUNT_WIDTH == 8
RECIPIENT_WIDTH == 32

int_from_bytes_little(b) == Normalize(b)

PlausibleCeiling == BigPow(10, 12)

\* 0 < x < 10**12
Plausible(x) == BigLt(BigZero, x) /\ BigLt(x, PlausibleCeiling)

\* a scan that stops after one stride
TailScan_One(raw, i, chunks) ==
    IF i >= AMOUNT_WIDTH /\ Plausible(int_from_bytes_little(PySlice(raw, i - AMOUNT_WIDTH, i)))
    THEN <<i - AMOUNT_WIDTH,
           <<int_from_bytes_little(PySlice(raw, i - AMOUNT_WIDTH, i))>>>>
    ELSE <<i, chunks>>

RECURSIVE TailScan(_, _, _)
\* the while loop of find_tail_amounts: <<i, chunks>> when it stops
TailScan(raw, i, chunks) ==
    IF i >= AMOUNT_WIDTH
    THEN LET x == int_from_bytes_little(PySlice(raw, i - AMOUNT_WIDTH, i))
         IN  IF Plausible(x)
             THEN TailScan(raw, i - AMOUNT_WIDTH, Append(chunks, x))
             ELSE <<i, chunks>>
    ELSE <<i, chunks>>

\* find_tail_amounts without amounts.reverse()
find_tail_amounts_NoReverse(raw) ==
    LET r == TailScan(raw, Len(raw), <<>>)
    IN  <<r[1], Len(r[2]), r[2]>>

\* (start_index, count, [amounts])
find_tail_amounts(raw) ==
    LET r == TailScan(raw, Len(raw), <<>>)
    IN  <<r[1], Len(r[2]), Reverse(r[2])>>

\* decode_qutil_outputs without the test of the block's length
decode_qutil_outputs_NoLengthTest(hex) ==
    LET u == unhexlify(hex)
    IN  IF u.exc = "binascii.Error" THEN [exc |-> "none", out |-> <<>>]
        ELSE IF u.exc # "none" THEN [exc |-> u.exc, out |-> <<>>]
        ELSE
        LET raw        == u.raw
            t          == find_tail_amounts(raw)
            amt_start  == t[1]
            n          == t[2]
            amounts    == t[3]
            addr_block == PySlice(raw, amt_start - n * RECIPIENT_WIDTH, amt_start)
        IN  IF n = 0 THEN [exc |-> "none", out |-> <<>>]
            ELSE [exc |-> "none",
                  out |-> [i \in 1..n |->
                             <<PySlice(addr_block, (i - 1) * RECIPIENT_WIDTH,
                                       i * RECIPIENT_WIDTH),
                               amounts[i]>>]]

\* decode_qutil_outputs taking the recipients from the start of the payload
decode_qutil_outputs_FromStart(hex) ==
    LET u == unhexlify(hex)
    IN  IF u.exc = "binascii.Error" THEN [exc |-> "none", out |-> <<>>]
        ELSE IF u.exc # "none" THEN [exc |-> u.exc, out |-> <<>>]
        ELSE
        LET raw        == u.raw
            t          == find_tail_amounts(raw)
            amt_start  == t[1]
            n          == t[2]
            amounts    == t[3]
            addr_block == PySlice(raw, 0, Min(amt_start, n * RECIPIENT_WIDTH))
        IN  IF n = 0 THEN [exc |-> "none", out |-> <<>>]
            ELSE IF Len(addr_block) # n * RECIPIENT_WIDTH
            THEN [exc |-> "none", out |-> <<>>]
            ELSE [exc |-> "none",
                  out |-> [i \in 1..n |->
                             <<PySlice(addr_block, (i - 1) * RECIPIENT_WIDTH,
                                       i * RECIPIENT_WIDTH),
                               amounts[i]>>]]

\* What a call of decode_qutil_outputs does: it returns a list of
\* <<recipient, amount>> pairs (exc = "none") or an exception leaves it.
decode_qutil_outputs(hex) ==
    LET u == unhexlify(hex)
    IN  IF u.exc = "binascii.Error" THEN [exc |-> "none", out |-> <<>>]
        ELSE IF u.exc # "none" THEN [exc |-> u.exc, out |-> <<>>]
        ELSE
        LET raw        == u.raw
            t          == find_tail_amounts(raw)
            amt_start  == t[1]
            n          == t[2]
            amounts    == t[3]
            addr_block == PySlice(raw, amt_start - n * RECIPIENT_WIDTH, amt_start)
        IN  IF n = 0 THEN [exc |-> "none", out |-> <<>>]
            ELSE IF Len(addr_block) # n * RECIPIENT_WIDTH
            THEN [exc |-> "none", out |-> <<>>]
            ELSE [exc |-> "none",
                  out |-> [i \in 1..n |->
                             <<PySlice(addr_block, (i - 1) * RECIPIENT_WIDTH,
                                       i * RECIPIENT_WIDTH),
                               amounts[i]>>]]

----------------------------------------------------------------------------
\* Values of the run: configuration and what the API can deliver

\* config.TARGET_AMOUNT
TARGET_AMOUNT == 1000

\* polite_get's default for `retries`
RETRIES == 6

\* None, where a str is expected, and a missing integer field
NoneStr == "None"
NoInt == 0 - 1

DEFAULT_DEST_ID == "EAAAAAAAAAAAAAAAAAAAAAAAAAAAAAAAAAAAAAAAAAAAAAAAAAAAAAAAVWRF"
EXPLORER_BASE == "https://explorer.qubic.org"

\* config.START_TICK and config.END_TICK
CONFIG_START_TICK == 1
CONFIG_END_TICK == 2

MaxWraps == 2
MaxRestarts == 1
MaxAttempts == 8

\* A 32-byte recipient: 24 bytes of filler and the 8 bytes before the next
\* field, which the tail scan reads when it gets that far.
Recipient(fill, last8) ==
    [i \in 1..RECIPIENT_WIDTH |->
        IF i <= RECIPIENT_WIDTH - AMOUNT_WIDTH THEN fill
        ELSE last8[i - (RECIPIENT_WIDTH - AMOUNT_WIDTH)]]

RECURSIVE Flatten(_)
Flatten(ss) == IF Len(ss) = 0 THEN <<>> ELSE Head(ss) \o Flatten(Tail(ss))

\* prefix ++ recipient * n ++ amount(8 bytes, little-endian) * n
Payload(prefix, recips, amts) ==
    prefix \o Flatten(recips)
           \o Flatten([i \in 1..Len(amts) |-> ToBytesLittle(amts[i], AMOUNT_WIDTH)])

RecipA == Recipient(171, Rep(205, AMOUNT_WIDTH))
RecipB == Recipient(18, Rep(239, AMOUNT_WIDTH))
RecipC == Recipient(52, Rep(129, AMOUNT_WIDTH))

\* A transaction object: tx.get(k) of a missing key is NoneStr / NoInt, and
\* hasInputHex is `"inputHex" in tx`.
Tx(dest, type, hasHex, hex, txid, id, tickNumber) ==
    [destId |-> dest, inputType |-> type, hasInputHex |-> hasHex, inputHex |-> hex,
     txId |-> txid, id |-> id, tickNumber |-> tickNumber]

EmptyTx == Tx(NoneStr, NoInt, FALSE, <<>>, NoneStr, NoneStr, NoInt)

\* A wrapper of the "transactions" array: null, or an object whose
\* "transaction" is null/missing or a transaction object.
Wrap(tx) == [isNone |-> FALSE, txNone |-> FALSE, transaction |-> tx]
NoneWrap == [isNone |-> TRUE, txNone |-> TRUE, transaction |-> EmptyTx]

ThreePayouts ==
    BytesHex(Payload(<<3, 1, 4>>, <<RecipA, RecipB, RecipC>>,
                     <<IntToBig(TARGET_AMOUNT), <<7>>, IntToBig(TARGET_AMOUNT)>>))
OnePayout ==
    BytesHex(Payload(<<>>, <<RecipB>>, <<IntToBig(TARGET_AMOUNT)>>))

\* The transactions the API delivers in the model, in the order of a tick's
\* array; a tick's array is a window of this list.
TxSamples ==
    << Wrap(Tx(DEFAULT_DEST_ID, 2, TRUE, OnePayout, "tx-a", NoneStr, NoInt)),
       Wrap(Tx(DEFAULT_DEST_ID, 1, TRUE, ThreePayouts, "tx-b", NoneStr, NoInt)),
       Wrap(Tx(DEFAULT_DEST_ID, 1, TRUE, <<NonAsciiChar, "0">>, "tx-c", NoneStr, NoInt)),
       Wrap(Tx(DEFAULT_DEST_ID, 1, TRUE, <<"z", "z">>, "tx-d", NoneStr, NoInt)),
       Wrap(Tx(DEFAULT_DEST_ID, 1, FALSE, <<>>, "tx-e", NoneStr, NoInt)),
       Wrap(Tx("OTHER", 1, TRUE, OnePayout, NoneStr, "id-f", 9)),
       NoneWrap >>

WrapLists ==
    LET N == Len(TxSamples)
    IN  { SubSeq(TxSamples, w[1], w[2]) :
            w \in { x \in (1..N) \X (0..N) : x[2] - x[1] + 1 \in 0..MaxWraps } }

\* What r.json() gives: a parse failure, a JSON value that is no object, an
\* object whose "transactions" is missing or no array, or one with the array.
Bodies ==
    { [kind |-> "invalid", transactions |-> <<>>],
      [kind |-> "array", transactions |-> <<>>],
      [kind |-> "object-no-list", transactions |-> <<>>] } \cup
    { [kind |-> "object", transactions |-> ws] : ws \in WrapLists }

StatusSamples == { 200, 304, 404, 429, 503, 600 }

----------------------------------------------------------------------------
\* JSON text, as the tokens json.dump writes and json.load reads

RECURSIVE BigToDecRec(_)
BigToDecRec(a) ==
    IF Len(a) = 0 THEN <<>>
    ELSE LET qr == BigDivMod(a, 10)
         IN  Append(BigToDecRec(Normalize(qr[1])), qr[2])

\* the decimal digits of a number, most significant first
BigToDec(a) == IF Len(a) = 0 THEN <<0>> ELSE BigToDecRec(a)

RECURSIVE DecToBig(_)
DecToBig(dec) ==
    IF Len(dec) = 0 THEN <<>>
    ELSE Normalize(BigMulAdd(DecToBig(SubSeq(dec, 1, Len(dec) - 1)), 10, dec[Len(dec)]))

RECURSIVE BigToInt(_)
BigToInt(a) == IF Len(a) = 0 THEN 0 ELSE a[1] + 256 * BigToInt(Tail(a))

JNum(dec) == [j |-> "num", dec |-> dec]
JStr(s)   == [j |-> "str", s |-> s]
JNull     == [j |-> "null"]
JInvalid  == [j |-> "invalid"]

PyInt(n)  == [py |-> "int", n |-> n]
PyNone    == [py |-> "None"]
PyStr(s)  == [py |-> "str", s |-> s]
PyDict(has_next, next) == [py |-> "dict", has_next |-> has_next, next |-> next]

AbsentFile    == [exists |-> FALSE, doc |-> JInvalid]
\* what open(path, "w") leaves until the data is written
TruncatedFile == [exists |-> TRUE, doc |-> JInvalid]
FileOf(doc)   == [exists |-> TRUE, doc |-> doc]

----------------------------------------------------------------------------
\* Progress store

\* json.dump(state, f) for the dict scan keeps
DumpState(st) ==
    [j |-> "obj", has_next |-> st.has_next,
     next |-> IF st.next.py = "int" THEN JNum(BigToDec(IntToBig(st.next.n)))
              ELSE IF st.next.py = "str" THEN JStr(st.next.s) ELSE JNull]

LoadValue(jv) ==
    IF jv.j = "num" THEN PyInt(BigToInt(DecToBig(jv.dec)))
    ELSE IF jv.j = "str" THEN PyStr(jv.s) ELSE PyNone

DecDigits == <<"0", "1", "2", "3", "4", "5", "6", "7", "8", "9">>

\* a string of decimal digits, the text int() accepts
IsDecimalText(s) ==
    /\ Len(s) > 0
    /\ \A i \in 1..Len(s) : \E d \in 1..10 : DecDigits[d] = s[i]

\* int(s) for such a string
DecimalValue(s) ==
    BigToInt(DecToBig([i \in 1..Len(s) |-> (CHOOSE d \in 1..10 : DecDigits[d] = s[i]) - 1]))

\* load_state(): the parsed file, or the default when the file is missing
\* or json.load raises
load_state(file, start) ==
    IF file.exists /\ file.doc.j # "invalid"
    THEN (IF file.doc.j = "obj"
          THEN PyDict(file.doc.has_next, LoadValue(file.doc.next))
          ELSE [py |-> "list"])
    ELSE PyDict(TRUE, PyInt(start))

\* int(state.get("next_tick", START_TICK))
CursorOf(st, start) ==
    IF st.py # "dict" THEN [exc |-> "AttributeError", n |-> 0]
    ELSE LET v == IF st.has_next THEN st.next ELSE PyInt(start)
         IN  IF v.py = "int" THEN [exc |-> "none", n |-> v.n]
             ELSE IF v.py = "str"
             THEN (IF IsDecimalText(v.s) THEN [exc |-> "none", n |-> DecimalValue(v.s)]
                   ELSE [exc |-> "ValueError", n |-> 0])
             ELSE [exc |-> "TypeError", n |-> 0]

----------------------------------------------------------------------------
\* Match store

DumpRec(r) ==
    [tick         |-> JNum(BigToDec(IntToBig(r.tick))),
     txId         |-> IF r.txId = NoneStr THEN JNull ELSE JStr(r.txId),
     pubkey_hex   |-> JStr(r.pubkey_hex),
     amount       |-> JNum(BigToDec(r.amount)),
     explorer_url |-> JStr(r.explorer_url),
     found_at     |-> JStr(r.found_at)]

LoadRec(jr) ==
    [tick         |-> BigToInt(DecToBig(jr.tick.dec)),
     txId         |-> IF jr.txId.j = "null" THEN NoneStr ELSE jr.txId.s,
     pubkey_hex   |-> jr.pubkey_hex.s,
     amount       |-> DecToBig(jr.amount.dec),
     explorer_url |-> jr.explorer_url.s,
     found_at     |-> jr.found_at.s]

\* json.dump(existing, f, indent=2)
DumpList(recs) == [j |-> "arr", items |-> [i \in 1..Len(recs) |-> DumpRec(recs[i])]]

\* json.load(f) of the results file
LoadResults(doc) ==
    IF doc.j = "invalid" THEN [exc |-> "JSONDecodeError", py |-> "None", items |-> <<>>]
    ELSE IF doc.j = "arr"
    THEN [exc |-> "none", py |-> "list",
          items |-> [i \in 1..Len(doc.items) |-> LoadRec(doc.items[i])]]
    ELSE [exc |-> "none", py |-> "dict", items |-> <<>>]

\* append_match that does not read the file
AppendExisting_Fresh(file, rec) == [exc |-> "none", items |-> <<rec>>]

\* append_match up to existing.append(rec): the list to be written, or the
\* exception that leaves the function
AppendExisting(file, rec) ==
    LET loaded   == LoadResults(file.doc)
        existing == IF file.exists /\ loaded.exc = "none"
                    THEN loaded
                    ELSE [exc |-> "none", py |-> "list", items |-> <<>>]
    IN  IF existing.py = "list"
        THEN [exc |-> "none", items |-> Append(existing.items, rec)]
        ELSE [exc |-> "AttributeError", items |-> <<>>]
----------------------------------------------------------------------------
\* Fetch client: one action per branch of polite_get's loop.  Each issues one
\* request (after _rate_limit) and handles its outcome.

NoReq == [kind |-> "none", status |-> 0]
NoResp == [status |-> 0]

\* a raise_for_status that lets the 4xx statuses through
RaisesForStatus_5xxOnly(status) == 500 <= status /\ status < 600

\* requests.Response.raise_for_status(): HTTPError for 400..599
RaisesForStatus(status) == 400 <= status /\ status < 600

\* a budget test that is late by one
Exhausted_Late(a) == a > RETRIES + 1

\* attempt > retries
Exhausted(a) == a > RETRIES

Requesting ==
    /\ pc = "request"
    /\ attempt < MaxAttempts

\* an exception leaves get_tick_transactions and reaches scan's handler
RaiseToScan ==
    /\ pc' = "except"
    /\ failedTicks' = failedTicks \cup {tick}

\* time.sleep(backoff); continue
SleepAndRetry ==
    /\ pc' = "request"
    /\ UNCHANGED failedTicks

\* session.get raised requests.RequestException
PoliteGetException ==
    /\ Requesting
    /\ attempt' = attempt + 1
    /\ reqCount' = reqCount + 1
    /\ lastReq' = [kind |-> "exception", status |-> 0]
    /\ IF Exhausted(attempt + 1) THEN RaiseToScan ELSE SleepAndRetry
    /\ UNCHANGED <<cfgVars, fileVars, state, tick, loopVars, resp, offClass, txVars,
                   cursor0, fetchLog, saveLog, runAppends, allVars, harnessVars>>

\* r.status_code == 429
PoliteGet429 ==
    /\ Requesting
    /\ 429 \in StatusSamples
    /\ attempt' = attempt + 1
    /\ reqCount' = reqCount + 1
    /\ lastReq' = [kind |-> "response", status |-> 429]
    /\ IF Exhausted(attempt + 1) /\ RaisesForStatus(429) THEN RaiseToScan ELSE SleepAndRetry
    /\ UNCHANGED <<cfgVars, fileVars, state, tick, loopVars, resp, offClass, txVars,
                   cursor0, fetchLog, saveLog, runAppends, allVars, harnessVars>>

\* r.status_code >= 500
PoliteGet5xx ==
    /\ Requesting
    /\ \E status \in { s \in StatusSamples : s # 429 /\ s >= 500 } :
          /\ lastReq' = [kind |-> "response", status |-> status]
          /\ offClass' = (offClass \/ status >= 600)
          /\ IF Exhausted(attempt + 1) /\ RaisesForStatus(status)
             THEN RaiseToScan ELSE SleepAndRetry
    /\ attempt' = attempt + 1
    /\ reqCount' = reqCount + 1
    /\ UNCHANGED <<cfgVars, fileVars, state, tick, loopVars, resp, txVars,
                   cursor0, fetchLog, saveLog, runAppends, allVars, harnessVars>>

\* any other status: r.raise_for_status(); return r
PoliteGetReturn ==
    /\ Requesting
    /\ \E status \in { s \in StatusSamples : s # 429 /\ s < 500 } :
          IF RaisesForStatus(status)
          THEN /\ lastReq' = [kind |-> "raised", status |-> status]
               /\ RaiseToScan
               /\ UNCHANGED resp
          ELSE /\ lastReq' = [kind |-> "returned", status |-> status]
               /\ pc' = "returned"
               /\ resp' = [status |-> status]
               /\ UNCHANGED failedTicks
    /\ reqCount' = reqCount + 1
    /\ UNCHANGED <<cfgVars, fileVars, state, tick, loopVars, attempt, offClass, txVars,
                   cursor0, fetchLog, saveLog, runAppends, allVars, harnessVars>>

\* r.json() or data.get may raise; a missing or non-list "transactions" is
\* the empty list
TransactionsOf(body) ==
    IF body.kind \in {"invalid", "array"} THEN [exc |-> "Exception", txs |-> <<>>]
    ELSE [exc |-> "none", txs |-> body.transactions]

\* get_tick_transactions after polite_get returned r; the body of r is
\* read here
ParseTransactions ==
    /\ pc = "returned"
    /\ \E body \in Bodies :
       LET t == TransactionsOf(body)
       IN  IF t.exc # "none"
           THEN /\ RaiseToScan
                /\ UNCHANGED <<wraps, callVars>>
           ELSE /\ pc' = "wraps"
                /\ wraps' = t.txs
                /\ reqCount' = 0
                /\ lastReq' = NoReq
                /\ offClass' = FALSE
                /\ UNCHANGED failedTicks
    /\ resp' = NoResp
    /\ attempt' = 0
    /\ widx' = 1
    /\ decodedSet' = {}
    /\ UNCHANGED <<cfgVars, fileVars, state, tick, outputs, oidx, pending,
                   txAppends, resultsBefore, cursor0, fetchLog, saveLog, runAppends,
                   allVars, harnessVars>>

----------------------------------------------------------------------------
\* Scan driver

InitialState == PyDict(FALSE, PyNone)

\* state = load_state(); tick = int(state.get("next_tick", START_TICK))
Start ==
    /\ pc = "start"
    /\ LET st == load_state(stateFile, START_TICK)
           c  == CursorOf(st, START_TICK)
       IN  /\ state' = st
           /\ IF c.exc = "none"
              THEN tick' = c.n /\ cursor0' = c.n /\ pc' = "loop"
              ELSE pc' = "crashed" /\ UNCHANGED <<tick, cursor0>>
    /\ fellBack' = (fellBack \/ (stateFile.exists /\ stateFile.doc.j = "invalid"))
    /\ UNCHANGED <<cfgVars, fileVars, loopVars, attempt, resp, callVars, txVars,
                   fetchLog, saveLog, failedTicks, runAppends,
                   run, everFetched, completed, refetched, harnessVars>>

\* a loop test that lets one tick past the end through
LoopTest_Late ==
    /\ pc = "loop"
    /\ IF tick <= END_TICK + 1
       THEN /\ pc' = "request"
            /\ fetchLog' = Append(fetchLog, tick)
            /\ everFetched' = everFetched \cup {tick}
            /\ refetched' = (refetched \/ (tick \in completed /\ ~fellBack))
       ELSE /\ pc' = "done"
            /\ UNCHANGED <<fetchLog, everFetched, refetched>>
    /\ UNCHANGED <<cfgVars, fileVars, state, tick, loopVars, attempt, resp, callVars, txVars,
                   cursor0, saveLog, failedTicks, runAppends,
                   run, completed, fellBack, harnessVars>>

\* while tick <= end: ... wraps = get_tick_transactions(tick)
LoopTest ==
    /\ pc = "loop"
    /\ IF tick <= END_TICK
       THEN /\ pc' = "request"
            /\ fetchLog' = Append(fetchLog, tick)
            /\ everFetched' = everFetched \cup {tick}
            /\ refetched' = (refetched \/ (tick \in completed /\ ~fellBack))
       ELSE /\ pc' = "done"
            /\ UNCHANGED <<fetchLog, everFetched, refetched>>
    /\ UNCHANGED <<cfgVars, fileVars, state, tick, loopVars, attempt, resp, callVars, txVars,
                   cursor0, saveLog, failedTicks, runAppends,
                   run, completed, fellBack, harnessVars>>

\* an advance that steps over a tick
AdvanceAndOpen_Two ==
    /\ tick' = tick + 2
    /\ state' = PyDict(TRUE, PyInt(tick + 2))
    /\ stateFile' = TruncatedFile
    /\ pc' = "save_write"

\* tick += 1; state["next_tick"] = tick; save_state(state) up to open(.., "w")
AdvanceAndOpen ==
    /\ tick' = tick + 1
    /\ state' = PyDict(TRUE, PyInt(tick + 1))
    /\ stateFile' = TruncatedFile
    /\ pc' = "save_write"

\* ExceptSkip without the save_state call
ExceptSkip_NoSave ==
    /\ pc = "except"
    /\ tick' = tick + 1
    /\ state' = PyDict(TRUE, PyInt(tick + 1))
    /\ pc' = "loop"
    /\ attempt' = 0
    /\ reqCount' = 0
    /\ lastReq' = NoReq
    /\ offClass' = FALSE
    /\ UNCHANGED <<cfgVars, fileVars, loopVars, resp, txVars, runVars, allVars,
                   harnessVars>>

\* ExceptSkip that saves and fetches the same tick again
ExceptSkip_Stay ==
    /\ pc = "except"
    /\ tick' = tick
    /\ state' = PyDict(TRUE, PyInt(tick))
    /\ stateFile' = TruncatedFile
    /\ pc' = "save_write"
    /\ attempt' = 0
    /\ reqCount' = 0
    /\ lastReq' = NoReq
    /\ offClass' = FALSE
    /\ UNCHANGED <<cfgVars, resultsFile, loopVars, resp, txVars, runVars, allVars,
                   harnessVars>>

\* the except branch of the loop body: the tick is skipped
ExceptSkip ==
    /\ pc = "except"
    /\ AdvanceAndOpen
    /\ attempt' = 0
    /\ reqCount' = 0
    /\ lastReq' = NoReq
    /\ offClass' = FALSE
    /\ UNCHANGED <<cfgVars, resultsFile, loopVars, resp, txVars, runVars, allVars,
                   harnessVars>>

\* the end of `for w in wraps`
Advance ==
    /\ pc = "wraps"
    /\ widx > Len(wraps)
    /\ AdvanceAndOpen
    /\ UNCHANGED <<cfgVars, resultsFile, loopVars, attempt, resp, callVars, txVars,
                   runVars, allVars, harnessVars>>

\* save_state: json.dump(state, f) and the close of the file
SaveWrite ==
    /\ pc = "save_write"
    /\ stateFile' = FileOf(DumpState(state))
    /\ saveLog' = Append(saveLog, state.next.n)
    /\ completed' = completed \cup {state.next.n - 1}
    /\ pc' = "loop"
    /\ UNCHANGED <<cfgVars, resultsFile, state, tick, loopVars, attempt, resp, callVars,
                   txVars, cursor0, fetchLog, failedTicks, runAppends,
                   run, everFetched, fellBack, refetched, harnessVars>>

\* tx = (w or {}).get("transaction") or {}
TxOf(w) == IF w.isNone \/ w.txNone THEN EmptyTx ELSE w.transaction

\* the two `continue` filters before decoding
Filtered(tx, filter) ==
    \/ filter # NoneStr /\ tx.destId # filter
    \/ tx.inputType # 1
    \/ ~tx.hasInputHex

\* one iteration of `for w in wraps`, up to the loop over the outputs
ForWraps ==
    /\ pc = "wraps"
    /\ widx <= Len(wraps)
    /\ LET tx == TxOf(wraps[widx])
           d  == decode_qutil_outputs(tx.inputHex)
       IN  IF Filtered(tx, QUTIL_DEST_ID)
           THEN /\ widx' = widx + 1
                /\ UNCHANGED <<pc, outputs, oidx, txAppends, decodedSet>>
           ELSE /\ decodedSet' = decodedSet \cup {widx}
                /\ IF d.exc # "none"
                   THEN /\ pc' = "crashed"
                        /\ UNCHANGED <<widx, outputs, oidx, txAppends>>
                   ELSE IF Len(d.out) = 0
                   THEN /\ widx' = widx + 1
                        /\ UNCHANGED <<pc, outputs, oidx, txAppends>>
                   ELSE /\ outputs' = d.out
                        /\ oidx' = 1
                        /\ txAppends' = <<>>
                        /\ pc' = "outputs"
                        /\ UNCHANGED widx
    /\ UNCHANGED <<cfgVars, fileVars, state, tick, wraps, pending, attempt, resp,
                   callVars, resultsBefore, runVars, allVars, harnessVars>>

\* txid = tx.get("txId") or tx.get("id")
TxIdOf(tx) == IF tx.txId # NoneStr /\ tx.txId # "" THEN tx.txId ELSE tx.id

\* the record scan builds for a matching payout
MatchRecord(tx, t, pk, amt, found_at) ==
    LET txid == TxIdOf(tx)
    IN  [tick         |-> IF tx.tickNumber = NoInt THEN t ELSE tx.tickNumber,
         txId         |-> txid,
         pubkey_hex   |-> BytesHex(pk),
         amount       |-> amt,
         explorer_url |-> IF txid # NoneStr /\ txid # ""
                          THEN <<EXPLORER_BASE, "/network/tx/", txid, "?type=latest">>
                          ELSE <<>>,
         found_at     |-> found_at]

\* a match test that accepts every amount
IsTarget_Any(amt) == TRUE

\* amt == TARGET_AMOUNT
IsTarget(amt) == amt = IntToBig(TARGET_AMOUNT)

\* what the results file holds, as append_match's caller would read it back
Held(file) ==
    LET l == LoadResults(file.doc)
    IN  IF file.exists /\ l.exc = "none" /\ l.py = "list"
        THEN [ok |-> TRUE, items |-> l.items]
        ELSE [ok |-> FALSE, items |-> <<>>]

\* one iteration of `for pk, amt in outputs`; for a match, append_match up
\* to open(p, "w")
ForOutputs ==
    /\ pc = "outputs"
    /\ IF oidx > Len(outputs)
       THEN /\ widx' = widx + 1
            /\ pc' = "wraps"
            /\ UNCHANGED <<oidx, resultsFile, pending, txAppends, resultsBefore, runAppends>>
       ELSE LET pk  == outputs[oidx][1]
                amt == outputs[oidx][2]
                rec == MatchRecord(TxOf(wraps[widx]), tick, pk, amt, run)
                ex  == AppendExisting(resultsFile, rec)
            IN  IF IsTarget(amt)
                THEN /\ txAppends' = Append(txAppends, rec)
                     /\ runAppends' = runAppends + 1
                     /\ resultsBefore' = Held(resultsFile)
                     /\ IF ex.exc = "none"
                        THEN /\ pending' = ex.items
                             /\ resultsFile' = TruncatedFile
                             /\ pc' = "append_write"
                        ELSE /\ pc' = "crashed"
                             /\ UNCHANGED <<pending, resultsFile>>
                     /\ UNCHANGED <<widx, oidx>>
                ELSE /\ oidx' = oidx + 1
                     /\ UNCHANGED <<pc, widx, resultsFile, pending, txAppends,
                                    resultsBefore, runAppends>>
    /\ UNCHANGED <<cfgVars, stateFile, state, tick, wraps, outputs, attempt, resp,
                   callVars, decodedSet, cursor0, fetchLog, saveLog, failedTicks,
                   allVars, harnessVars>>

\* a dump that writes the new record twice
AppendWrite_Twice ==
    /\ pc = "append_write"
    /\ resultsFile' = FileOf(DumpList(Append(pending, pending[Len(pending)])))
    /\ pending' = <<>>
    /\ oidx' = oidx + 1
    /\ pc' = "outputs"
    /\ UNCHANGED <<cfgVars, stateFile, state, tick, wraps, widx, outputs, attempt, resp,
                   histVars, harnessVars>>

\* append_match: json.dump(existing, f, indent=2) and the close of the file
AppendWrite ==
    /\ pc = "append_write"
    /\ resultsFile' = FileOf(DumpList(pending))
    /\ pending' = <<>>
    /\ oidx' = oidx + 1
    /\ pc' = "outputs"
    /\ UNCHANGED <<cfgVars, stateFile, state, tick, wraps, widx, outputs, attempt, resp,
                   histVars, harnessVars>>

Running == { "start", "loop", "request", "returned", "except", "save_write", "wraps",
             "outputs", "append_write" }

NoHeld == [ok |-> FALSE, items |-> <<>>]

\* the memory of a process that ended, and of one not yet started
ProcessGone ==
    /\ state' = InitialState
    /\ tick' = 0
    /\ wraps' = <<>>
    /\ widx' = 1
    /\ outputs' = <<>>
    /\ oidx' = 1
    /\ pending' = <<>>
    /\ attempt' = 0
    /\ resp' = NoResp
    /\ reqCount' = 0
    /\ lastReq' = NoReq
    /\ offClass' = FALSE
    /\ txAppends' = <<>>
    /\ decodedSet' = {}
    /\ resultsBefore' = NoHeld
    /\ cursor0' = NoInt
    /\ fetchLog' = <<>>
    /\ saveLog' = <<>>
    /\ failedTicks' = {}
    /\ runAppends' = 0

\* the operator interrupts the process (or the machine stops)
Kill ==
    /\ pc \in Running
    /\ pc' = "killed"
    /\ ProcessGone
    /\ UNCHANGED <<cfgVars, fileVars, allVars, harnessVars>>

\* the script is run again: only the two files survive
Restart ==
    /\ pc \in {"killed", "crashed", "done"}
    /\ run < MaxRestarts
    /\ run' = run + 1
    /\ pc' = "start"
    /\ ProcessGone
    /\ UNCHANGED <<cfgVars, fileVars, everFetched, completed, fellBack, refetched,
                   harnessVars>>

\* a process not started
ProcessFresh ==
    /\ state = InitialState
    /\ tick = 0
    /\ wraps = <<>>
    /\ widx = 1
    /\ outputs = <<>>
    /\ oidx = 1
    /\ pending = <<>>
    /\ attempt = 0
    /\ resp = NoResp
    /\ reqCount = 0
    /\ lastReq = NoReq
    /\ offClass = FALSE
    /\ txAppends = <<>>
    /\ decodedSet = {}
    /\ resultsBefore = NoHeld
    /\ cursor0 = NoInt
    /\ fetchLog = <<>>
    /\ saveLog = <<>>
    /\ failedTicks = {}
    /\ runAppends = 0
    /\ run = 0
    /\ everFetched = {}
    /\ completed = {}
    /\ fellBack = FALSE
    /\ refetched = FALSE

\* a process not started, with nothing on disk
ScanFresh ==
    /\ stateFile = AbsentFile
    /\ resultsFile = AbsentFile
    /\ ProcessFresh

ScanInit ==
    /\ START_TICK = CONFIG_START_TICK
    /\ END_TICK = CONFIG_END_TICK
    /\ QUTIL_DEST_ID \in {DEFAULT_DEST_ID, NoneStr}
    /\ pc = "start"
    /\ ScanFresh

\* the scanning process does not run
ScanIdle ==
    /\ START_TICK = CONFIG_START_TICK
    /\ END_TICK = CONFIG_END_TICK
    /\ QUTIL_DEST_ID = DEFAULT_DEST_ID
    /\ pc = "idle"
    /\ ScanFresh

\* find_tail_amounts was not called
NoTail == [called |-> FALSE, ret |-> <<0, 0, <<>>>>]

DecodeIdle ==
    /\ input_hex = <<>>
    /\ dec_result = [status |-> "idle", exc |-> "none", out |-> <<>>]
    /\ in_shape = [prefix |-> <<>>, recips |-> <<>>, amounts |-> <<>>, variant |-> "exact"]
    /\ tail_result = NoTail

\* no reading of the clock yet
NoTime == 0 - 1

NoRequest == [start |-> NoTime, end |-> NoTime]

RateIdle ==
    /\ now = 0
    /\ last_request = 0
    /\ wait = 0
    /\ rl_pc = "idle"
    /\ stamps = <<NoTime, NoTime>>
    /\ reqTimes = <<NoRequest, NoRequest>>

\* no call of polite_get is observed
BackoffIdle ==
    /\ bo_pc = "idle"
    /\ bo_attempt = 0
    /\ bo_last = [cause |-> "none"]

Init == ScanInit /\ DecodeIdle /\ RateIdle /\ BackoffIdle

Next ==
    \/ Start
    \/ LoopTest
    \/ PoliteGetException
    \/ PoliteGet429
    \/ PoliteGet5xx
    \/ PoliteGetReturn
    \/ ParseTransactions
    \/ ExceptSkip
    \/ Advance
    \/ SaveWrite
    \/ ForWraps
    \/ ForOutputs
    \/ AppendWrite
    \/ Kill
    \/ Restart

Spec == Init /\ [][Next]_vars

----------------------------------------------------------------------------
\* One uninterrupted run of scan() on whatever the two files hold when it
\* starts, under either order of the configured range.

\* {"next_tick": <v>}
ProgressDoc(v) == [j |-> "obj", has_next |-> TRUE, next |-> v]
\* {}
EmptyObject == [j |-> "obj", has_next |-> FALSE, next |-> JNull]
\* []
EmptyArray == [j |-> "arr", items |-> <<>>]

\* what STATE_FILE may hold when scan() starts
ProgressFiles ==
    { AbsentFile, TruncatedFile, FileOf(EmptyObject), FileOf(EmptyArray),
      FileOf(ProgressDoc(JNull)), FileOf(ProgressDoc(JStr(<<"2">>))),
      FileOf(ProgressDoc(JStr(<<"x">>))) } \cup
    { FileOf(ProgressDoc(JNum(<<t>>))) : t \in 0..(CONFIG_END_TICK + 1) }

\* a record of an earlier run
OldRecord == MatchRecord(TxOf(TxSamples[2]), 0, RecipC, IntToBig(TARGET_AMOUNT), 0)

\* what RESULTS_FILE may hold when scan() starts
ResultsFiles ==
    { AbsentFile, TruncatedFile, FileOf(DumpList(<<>>)), FileOf(DumpList(<<OldRecord>>)),
      FileOf(EmptyObject) }

InputInit ==
    /\ \E range \in { <<CONFIG_START_TICK, CONFIG_END_TICK>>,
                       <<CONFIG_END_TICK, CONFIG_START_TICK>> } :
          /\ START_TICK = range[1]
          /\ END_TICK = range[2]
    /\ QUTIL_DEST_ID = DEFAULT_DEST_ID
    /\ stateFile \in ProgressFiles
    /\ resultsFile \in ResultsFiles
    /\ pc = "start"
    /\ ProcessFresh
    /\ DecodeIdle
    /\ RateIdle
    /\ BackoffIdle

InputNext ==
    \/ Start
    \/ LoopTest
    \/ PoliteGetException
    \/ PoliteGet429
    \/ PoliteGet5xx
    \/ PoliteGetReturn
    \/ ParseTransactions
    \/ ExceptSkip
    \/ Advance
    \/ SaveWrite
    \/ ForWraps
    \/ ForOutputs
    \/ AppendWrite

SpecInput == InputInit /\ [][InputNext]_vars

----------------------------------------------------------------------------
\* Rate limiter: _rate_limit and the request that follows it in polite_get,
\* with time in tenths of a second.

\* MIN_REQUEST_INTERVAL (0.4 s by default)
MIN_REQUEST_INTERVAL == 4

MaxClock == 24
MaxElapse == 6
MaxOversleep == 1

\* a limiter that never waits
WaitFor_Never(last, t) == 0

\* `wait` of _rate_limit: _last_request + MIN_REQUEST_INTERVAL - now
WaitFor(last, t) == last + MIN_REQUEST_INTERVAL - t

\* _rate_limit up to `if wait > 0`
RateLimitCheck ==
    /\ rl_pc = "call"
    /\ wait' = WaitFor(last_request, now)
    /\ rl_pc' = IF WaitFor(last_request, now) > 0 THEN "sleep" ELSE "stamp"
    /\ UNCHANGED <<now, last_request, stamps, reqTimes, scanVars, decVars, backVars>>

\* time.sleep(wait): at least `wait` passes
RateLimitSleep ==
    /\ rl_pc = "sleep"
    /\ \E over \in 0..MaxOversleep :
          /\ now + wait + over <= MaxClock
          /\ now' = now + wait + over
    /\ rl_pc' = "stamp"
    /\ UNCHANGED <<last_request, wait, stamps, reqTimes, scanVars, decVars, backVars>>

\* _last_request = time.monotonic(), and session.get starts
RateLimitStamp ==
    /\ rl_pc = "stamp"
    /\ last_request' = now
    /\ stamps' = <<stamps[2], now>>
    /\ reqTimes' = <<reqTimes[2], [start |-> now, end |-> NoTime]>>
    /\ rl_pc' = "inflight"
    /\ UNCHANGED <<now, wait, scanVars, decVars, backVars>>

\* session.get returns or raises, after the time the request took
RequestEnds ==
    /\ rl_pc = "inflight"
    /\ \E d \in 0..MaxElapse :
          /\ now + d <= MaxClock
          /\ now' = now + d
          /\ reqTimes' = <<reqTimes[1], [start |-> reqTimes[2].start, end |-> now + d]>>
    /\ rl_pc' = "between"
    /\ UNCHANGED <<last_request, wait, stamps, scanVars, decVars, backVars>>

\* what polite_get and scan do until the next _rate_limit(): a backoff sleep,
\* or the processing of the tick
NextCall ==
    /\ rl_pc = "between"
    /\ \E d \in 0..MaxElapse :
          /\ now + d <= MaxClock
          /\ now' = now + d
    /\ rl_pc' = "call"
    /\ UNCHANGED <<last_request, wait, stamps, reqTimes, scanVars, decVars, backVars>>

\* _last_request = 0.0 when the module is loaded; the monotonic clock reads
\* anything
RateInit ==
    /\ now \in 0..MaxElapse
    /\ last_request = 0
    /\ wait = 0
    /\ rl_pc = "call"
    /\ stamps = <<NoTime, NoTime>>
    /\ reqTimes = <<NoRequest, NoRequest>>
    /\ ScanIdle
    /\ DecodeIdle
    /\ BackoffIdle

RateNext ==
    \/ RateLimitCheck
    \/ RateLimitSleep
    \/ RateLimitStamp
    \/ RequestEnds
    \/ NextCall

SpecRate == RateInit /\ [][RateNext]_vars

----------------------------------------------------------------------------
\* The sleeps of polite_get: one call, with the time each retry waits, in
\* tenths of a second.

\* random.random(), to the tenth of a second
JitterSamples == {0, 5, 9}

\* min(30, 2 ** attempt + random.random())
ExpBackoff(k, jitter) == Min(300, 10 * (2 ^ k) + jitter)

NoHeader == [present |-> FALSE, text |-> <<>>]
Header(text) == [present |-> TRUE, text |-> text]

\* r.headers.get("Retry-After")
RetryAfterSamples ==
    { NoHeader, Header(<<>>), Header(<<"0">>), Header(<<"2">>), Header(<<"4", "5">>),
      Header(<<"-", "1">>), Header(<<"n", "a", "n">>), Header(<<"s", "o", "o", "n">>) }

\* float(ra): the value in tenths of a second, or ValueError
ParseFloat(text) ==
    IF IsDecimalText(text)
    THEN [exc |-> "none", kind |-> "finite", tenths |-> 10 * DecimalValue(text)]
    ELSE IF Len(text) > 1 /\ text[1] = "-" /\ IsDecimalText(Tail(text))
    THEN [exc |-> "none", kind |-> "finite", tenths |-> 0 - 10 * DecimalValue(Tail(text))]
    ELSE IF text = <<"n", "a", "n">>
    THEN [exc |-> "none", kind |-> "nan", tenths |-> 0]
    ELSE [exc |-> "ValueError", kind |-> "none", tenths |-> 0]

\* the 429 branch's choice of `backoff`
Backoff429(ra, k, jitter) ==
    IF ra.present /\ ra.text # <<>>
    THEN (IF ParseFloat(ra.text).exc = "none"
          THEN [from |-> "retry-after", kind |-> ParseFloat(ra.text).kind,
                tenths |-> ParseFloat(ra.text).tenths]
          ELSE [from |-> "exponential", kind |-> "finite", tenths |-> ExpBackoff(k, jitter)])
    ELSE [from |-> "exponential", kind |-> "finite", tenths |-> ExpBackoff(k, jitter)]

\* time.sleep(x) raises ValueError for a negative x and for NaN
SleepRaises(b) == b.kind = "nan" \/ b.tenths < 0

NoSleep == [cause |-> "none", status |-> 0, header |-> NoHeader, from |-> "none",
            kind |-> "finite", tenths |-> 0, exc |-> "none"]

\* except requests.RequestException: ...
BackoffException ==
    /\ bo_pc = "request"
    /\ bo_attempt' = bo_attempt + 1
    /\ \E jitter \in JitterSamples :
          IF Exhausted(bo_attempt + 1)
          THEN /\ bo_pc' = "raised"
               /\ bo_last' = [NoSleep EXCEPT !.cause = "exception", !.exc = "RequestException"]
          ELSE /\ bo_pc' = "request"
               /\ bo_last' = [NoSleep EXCEPT !.cause = "exception", !.from = "exponential",
                                             !.tenths = ExpBackoff(bo_attempt + 1, jitter)]
    /\ UNCHANGED <<scanVars, decVars, rateVars>>

\* if r.status_code == 429: ...
BackoffTooMany ==
    /\ bo_pc = "request"
    /\ bo_attempt' = bo_attempt + 1
    /\ \E ra \in RetryAfterSamples, jitter \in JitterSamples :
          LET b == Backoff429(ra, bo_attempt + 1, jitter)
          IN  IF Exhausted(bo_attempt + 1) /\ RaisesForStatus(429)
              THEN /\ bo_pc' = "raised"
                   /\ bo_last' = [NoSleep EXCEPT !.cause = "429", !.status = 429,
                                                 !.header = ra, !.exc = "HTTPError"]
              ELSE /\ bo_pc' = IF SleepRaises(b) THEN "raised" ELSE "request"
                   /\ bo_last' = [cause |-> "429", status |-> 429, header |-> ra,
                                  from |-> b.from, kind |-> b.kind, tenths |-> b.tenths,
                                  exc |-> IF SleepRaises(b) THEN "ValueError" ELSE "none"]
    /\ UNCHANGED <<scanVars, decVars, rateVars>>

\* if r.status_code >= 500: ...
BackoffServerError ==
    /\ bo_pc = "request"
    /\ bo_attempt' = bo_attempt + 1
    /\ \E status \in { s \in StatusSamples : 500 <= s /\ s < 600 }, jitter \in JitterSamples :
          IF Exhausted(bo_attempt + 1) /\ RaisesForStatus(status)
          THEN /\ bo_pc' = "raised"
               /\ bo_last' = [NoSleep EXCEPT !.cause = "5xx", !.status = status,
                                             !.exc = "HTTPError"]
          ELSE /\ bo_pc' = "request"
               /\ bo_last' = [NoSleep EXCEPT !.cause = "5xx", !.status = status,
                                             !.from = "exponential",
                                             !.tenths = ExpBackoff(bo_attempt + 1, jitter)]
    /\ UNCHANGED <<scanVars, decVars, rateVars>>

\* r.raise_for_status(); return r
BackoffReturn ==
    /\ bo_pc = "request"
    /\ \E status \in { s \in StatusSamples : s # 429 /\ s < 500 } :
          IF RaisesForStatus(status)
          THEN /\ bo_pc' = "raised"
               /\ bo_last' = [NoSleep EXCEPT !.cause = "status", !.status = status,
                                             !.exc = "HTTPError"]
          ELSE /\ bo_pc' = "returned"
               /\ bo_last' = [bo_last EXCEPT !.status = status]
    /\ UNCHANGED <<bo_attempt, scanVars, decVars, rateVars>>

\* polite_get is entered: attempt = 0
BackoffInit ==
    /\ bo_pc = "request"
    /\ bo_attempt = 0
    /\ bo_last = NoSleep
    /\ ScanIdle
    /\ DecodeIdle
    /\ RateIdle

BackoffNext ==
    \/ BackoffException
    \/ BackoffTooMany
    \/ BackoffServerError
    \/ BackoffReturn

SpecBackoff == BackoffInit /\ [][BackoffNext]_vars

----------------------------------------------------------------------------
\* The decoder on its own: Init draws the inputHex string, Decode applies
\* decode_qutil_outputs to it.

MaxPayouts == 2

RecipientSamples ==
    { RecipA,
      Recipient(18, ToBytesLittle(<<7>>, AMOUNT_WIDTH)),
      Recipient(0, Rep(0, AMOUNT_WIDTH)) }

AmountSamples ==
    { <<1>>, IntToBig(TARGET_AMOUNT), BigPred(PlausibleCeiling),
      BigZero, PlausibleCeiling }

PrefixSamples ==
    { <<>>, <<9, 9, 9>>, Rep(255, RECIPIENT_WIDTH) }

\* str.upper() on the digits of a hexadecimal string
UpperOf == [c \in {LowerHex[v] : v \in 1..16} |-> UpperHex[CHOOSE v \in 1..16 : LowerHex[v] = c]]

UpperCase(s) ==
    [i \in 1..Len(s) |-> IF s[i] \in DOMAIN UpperOf THEN UpperOf[s[i]] ELSE s[i]]

Variants == { "exact", "upper", "odd", "nonhex", "nonascii", "empty", "short" }

\* The string the API delivers for a payload, well-formed or not
Mangle(variant, hex) ==
    CASE variant = "exact"    -> hex
      [] variant = "upper"    -> UpperCase(hex)
      [] variant = "odd"      -> SubSeq(hex, 1, Len(hex) - 1)
      [] variant = "nonhex"   -> <<"g">> \o Tail(hex)
      [] variant = "nonascii" -> <<NonAsciiChar>> \o Tail(hex)
      [] variant = "empty"    -> <<>>
      [] variant = "short"    -> SubSeq(hex, Len(hex) - 13, Len(hex))

\* the mangled strings do not depend on how many payouts the payload had:
\* they are drawn from the payloads of one payout
VariantsFor(n) == IF n = 1 THEN Variants ELSE {"exact", "upper"}

DecodeInit ==
    /\ ScanIdle
    /\ RateIdle
    /\ BackoffIdle
    /\ \E n \in 1..MaxPayouts :
       \E p \in PrefixSamples :
       \E rs \in [1..n -> RecipientSamples] :
       \E as \in [1..n -> AmountSamples] :
       \E v \in VariantsFor(n) :
          /\ in_shape = [prefix |-> p, recips |-> rs, amounts |-> as, variant |-> v]
          /\ input_hex = Mangle(v, BytesHex(Payload(p, rs, as)))
    /\ dec_result = [status |-> "pending", exc |-> "none", out |-> <<>>]
    /\ tail_result = NoTail

Decode ==
    /\ dec_result.status = "pending"
    /\ dec_result' = [status |-> "called"] @@ decode_qutil_outputs(input_hex)
    /\ tail_result' = LET u == unhexlify(input_hex)
                      IN  IF u.exc = "none"
                          THEN [called |-> TRUE, ret |-> find_tail_amounts(u.raw)]
                          ELSE NoTail
    /\ UNCHANGED <<input_hex, in_shape, scanVars, rateVars, backVars>>

DecodeNext == Decode

SpecDecode == DecodeInit /\ [][DecodeNext]_vars

----------------------------------------------------------------------------
\* Properties of the scan driver, the fetch client and the two stores
\* (specification Spec)

\* the ticks a process that loaded cursor T has to fetch
TicksFrom(T) == [i \in 1..Max(0, END_TICK - T + 1) |-> T + i - 1]

\* C1. Resumability: a scan() that started from next_tick = T and has ended
\* has fetched exactly T, T+1, ..., END_TICK, each once and in increasing
\* order; when T > END_TICK it fetched nothing, saved nothing, appended
\* nothing and finished.
C1_Resumability ==
    (pc \in {"done", "crashed"} /\ cursor0 # NoInt) =>
        /\ fetchLog = TicksFrom(cursor0)
        /\ cursor0 > END_TICK => (pc = "done" /\ saveLog = <<>> /\ runAppends = 0)

\* C2. Checkpointing: the k-th save_state of a process follows the processing
\* of the k-th tick it fetched and writes that tick + 1 (one save per tick,
\* none before the tick's processing is over, on the success and on the
\* failure path); across kills and restarts that found the progress file
\* intact, no tick whose save completed is fetched again, the persisted
\* cursor never passes a tick that was not fetched, and a finished scan has
\* fetched every tick of [START_TICK, END_TICK].
C2_Checkpointing ==
    /\ saveLog = [i \in 1..Len(saveLog) |-> fetchLog[i] + 1]
    /\ pc \in {"loop", "done"} => Len(saveLog) = Len(fetchLog)
    /\ pc \in {"request", "returned", "except", "wraps", "outputs", "append_write",
               "save_write", "crashed"} => Len(saveLog) = Len(fetchLog) - 1
    /\ pc = "save_write" => state.next.n = fetchLog[Len(fetchLog)] + 1
    /\ ~refetched
    /\ (stateFile.exists /\ stateFile.doc.j # "invalid") =>
           \A t \in START_TICK..(load_state(stateFile, START_TICK).next.n - 1) :
               t \in everFetched
    /\ pc = "done" => \A t \in START_TICK..END_TICK : t \in everFetched

\* a process killed after tick 1 was saved, restarted on the intact progress
\* file, has finished the range without fetching tick 1 again
C2_Witness ==
    /\ run = 1
    /\ pc = "done"
    /\ cursor0 = 2
    /\ fetchLog = <<2>>
    /\ completed = {1, 2}
    /\ ~fellBack

C4_FetchFailureSkip ==
    [][ /\ (pc \in {"request", "returned"} /\ pc' = "except") =>
               (tick \in failedTicks' /\ tick' = tick
                /\ resultsFile' = resultsFile /\ runAppends' = runAppends)
        /\ (pc = "except" /\ pc' # "killed") =>
               (pc' = "save_write" /\ tick' = tick + 1
                /\ state' = PyDict(TRUE, PyInt(tick + 1))
                /\ resultsFile' = resultsFile /\ runAppends' = runAppends)
        /\ (pc = "save_write" /\ (tick - 1) \in failedTicks /\ pc' # "killed") =>
               (pc' = "loop" /\ tick' = tick
                /\ load_state(stateFile', START_TICK) = PyDict(TRUE, PyInt(tick)))
        /\ (pc = "loop" /\ (tick - 1) \in failedTicks /\ pc' # "killed") =>
               IF tick <= END_TICK
               THEN pc' = "request" /\ fetchLog' = Append(fetchLog, tick)
               ELSE pc' = "done"
      ]_vars

\* tick 1 failed, nothing was recorded, and the scan went on to tick 2
C4_Witness ==
    /\ failedTicks = {1}
    /\ fetchLog = <<1, 2>>
    /\ saveLog = <<2>>
    /\ pc = "wraps"
    /\ runAppends = 0
    /\ resultsFile = AbsentFile

\* C8 as stated. Non-retryable statuses: polite_get returns a response only
\* when its status is 2xx; any other status that is neither 429 nor 5xx is
\* raised on the attempt that received it.
C8_Original ==
    /\ lastReq.kind = "returned" => (200 <= lastReq.status /\ lastReq.status < 300)
    /\ pc = "returned" => (200 <= resp.status /\ resp.status < 300)

\* C8. Non-retryable statuses: a 4xx status other than 429 is raised on the
\* attempt that received it, with no retry and no backoff; only 429 and
\* statuses of 500 and above are retried; polite_get returns a response only
\* when its status is below 400.
C8_NonRetryable ==
    /\ lastReq.kind = "returned" => lastReq.status < 400
    /\ pc = "returned" => (resp.status < 400 /\ resp.status = lastReq.status)
    /\ lastReq.kind = "raised" =>
           /\ pc = "except"
           /\ 400 <= lastReq.status /\ lastReq.status < 500 /\ lastReq.status # 429
           /\ reqCount = attempt + 1
    /\ lastReq.kind = "response" => (lastReq.status = 429 \/ lastReq.status >= 500)

\* a 404 that followed two retried faults was raised at once
C8_Witness ==
    /\ lastReq = [kind |-> "raised", status |-> 404]
    /\ pc = "except"
    /\ attempt = 2
    /\ reqCount = 3

\* the payouts of `outs` that scan records
TargetPayouts(outs) == SelectSeq(outs, LAMBDA o : o[2] = IntToBig(TARGET_AMOUNT))

\* the outputs of the current transaction the inner loop has dealt with
Handled == SubSeq(outputs, 1, IF pc = "append_write" THEN oidx ELSE oidx - 1)

\* C9. Match filtering: while scan walks the payouts of a transaction, that
\* transaction has inputType 1, an inputHex and (with a filter configured)
\* the filter's destId; the payouts are the decoder's; the appends made for
\* it are exactly its payouts with amount = TARGET_AMOUNT handled so far, one
\* each, in payload order; and no transaction with inputType # 1 was decoded.
C9_MatchFiltering ==
    /\ \A i \in decodedSet :
           /\ i <= Len(wraps)
           /\ TxOf(wraps[i]).inputType = 1
           /\ TxOf(wraps[i]).hasInputHex
           /\ QUTIL_DEST_ID # NoneStr => TxOf(wraps[i]).destId = QUTIL_DEST_ID
    /\ pc \in {"outputs", "append_write"} =>
           LET tx  == TxOf(wraps[widx])
               exp == TargetPayouts(Handled)
           IN  /\ widx \in decodedSet
               /\ outputs = decode_qutil_outputs(tx.inputHex).out
               /\ Len(txAppends) = Len(exp)
               /\ \A i \in 1..Len(exp) :
                      /\ txAppends[i].pubkey_hex = BytesHex(exp[i][1])
                      /\ txAppends[i].amount = exp[i][2]
                      /\ txAppends[i].amount = IntToBig(TARGET_AMOUNT)
                      /\ txAppends[i].txId = TxIdOf(tx)

\* all three payouts of a transaction were handled: the first and the third
\* were recorded, the second (another amount) was not
C9_Witness ==
    /\ pc = "outputs"
    /\ Len(outputs) = 3
    /\ oidx = 4
    /\ Len(txAppends) = 2
    /\ txAppends[1].pubkey_hex # txAppends[2].pubkey_hex

\* C10. Match store round trip: after append_match(rec) on a readable results
\* file holding r1..rk, the file read back holds r1..rk followed by rec, each
\* unchanged.
C10_AppendOnly ==
    (pc = "outputs" /\ txAppends # <<>> /\ resultsBefore.ok) =>
        /\ Held(resultsFile).ok
        /\ Held(resultsFile).items = Append(resultsBefore.items, txAppends[Len(txAppends)])

\* an append on a file that already held records
C10_Witness ==
    /\ pc = "outputs"
    /\ txAppends # <<>>
    /\ resultsBefore.ok
    /\ Len(resultsBefore.items) >= 1
    /\ Len(Held(resultsFile).items) = Len(resultsBefore.items) + 1

----------------------------------------------------------------------------
\* Properties of the decoder (specification SpecDecode)

\* the payload is n recipients followed by n plausible amounts, delivered
\* as valid hex
WellShaped ==
    /\ dec_result.status = "called"
    /\ in_shape.variant \in {"exact", "upper"}
    /\ in_shape.prefix = <<>>
    /\ \A i \in 1..Len(in_shape.amounts) : Plausible(in_shape.amounts[i])

ExactPairs == [i \in 1..Len(in_shape.recips) |-> <<in_shape.recips[i], in_shape.amounts[i]>>]

\* the last 8 bytes of the last recipient, read as the tail scan reads them
BeforeAmounts ==
    LET r == in_shape.recips[Len(in_shape.recips)]
    IN  int_from_bytes_little(SubSeq(r, RECIPIENT_WIDTH - AMOUNT_WIDTH + 1, RECIPIENT_WIDTH))

\* C5 as stated. Decoder exact recovery: n recipients followed by n plausible
\* amounts decode to exactly those n pairs in order, whatever the recipient
\* bytes are.
C5_Original ==
    WellShaped => (dec_result.exc = "none" /\ dec_result.out = ExactPairs)

\* C5. Decoder exact recovery: n recipients followed by n plausible amounts
\* decode to exactly those n pairs in order, provided the last 8 bytes of the
\* last recipient do not read as a plausible amount.
C5_ExactRecovery ==
    (WellShaped /\ ~Plausible(BeforeAmounts)) =>
        (dec_result.exc = "none" /\ dec_result.out = ExactPairs)

\* two different pairs recovered in order
C5_Witness ==
    /\ WellShaped
    /\ ~Plausible(BeforeAmounts)
    /\ Len(in_shape.recips) = 2
    /\ in_shape.recips[1] # in_shape.recips[2]
    /\ in_shape.amounts[1] # in_shape.amounts[2]
    /\ dec_result.out = ExactPairs

\* C6. Decoder totality: decode_qutil_outputs never raises, whatever string
\* the API delivers as inputHex.
C6_Totality ==
    dec_result.status = "called" => dec_result.exc = "none"

----------------------------------------------------------------------------
\* Properties of the rate limiter (specification SpecRate)

\* C7 as stated. Rate-limit floor: between the end of a request and the start
\* of the next one at least MIN_REQUEST_INTERVAL elapses.
C7_Original ==
    (reqTimes[1].end # NoTime /\ reqTimes[2].start # NoTime) =>
        reqTimes[2].start - reqTimes[1].end >= MIN_REQUEST_INTERVAL

\* C7. Rate-limit floor: between the starts of two consecutive requests (the
\* moments _rate_limit stamped _last_request) at least MIN_REQUEST_INTERVAL
\* elapses; the time the first of them took counts toward the interval.
C7_RateFloor ==
    /\ (stamps[1] # NoTime /\ stamps[2] # NoTime) =>
           stamps[2] - stamps[1] >= MIN_REQUEST_INTERVAL
    /\ reqTimes[2].start = stamps[2]
    /\ reqTimes[1].start = stamps[1]
    /\ rl_pc \in {"inflight", "between"} => last_request = stamps[2]

\* the limiter slept and the second request started exactly one interval
\* after the first
C7_Witness ==
    /\ rl_pc = "inflight"
    /\ stamps[1] # NoTime
    /\ wait > 0
    /\ stamps[2] - stamps[1] = MIN_REQUEST_INTERVAL
    /\ reqTimes[1].end < reqTimes[2].start

----------------------------------------------------------------------------
\* Properties of one run on arbitrary file contents (specification SpecInput)

\* the progress file is missing, unparseable, or not an object with an
\* integer next_tick
MalformedProgress(file) ==
    \/ ~file.exists
    \/ file.doc.j # "obj"
    \/ ~file.doc.has_next
    \/ file.doc.next.j # "num"

\* scan() has done `tick = int(state.get(...))`, or died doing it, and
\* nothing else
JustStarted == pc \in {"loop", "crashed"} /\ fetchLog = <<>> /\ saveLog = <<>>

\* C11. Progress fallback: with a missing or malformed progress file scan()
\* does not crash and starts from START_TICK.
C11_ProgressFallback ==
    (JustStarted /\ MalformedProgress(stateFile)) => (pc = "loop" /\ tick = START_TICK)

\* C12. Match store corruption fallback: when append_match finds a results
\* file it cannot read as a list of records, it does not raise and leaves the
\* file holding exactly the one new record.
C12_CorruptionFallback ==
    (txAppends # <<>> /\ ~resultsBefore.ok /\ pc # "append_write") =>
        /\ pc # "crashed"
        /\ Held(resultsFile).ok
        /\ Held(resultsFile).items = <<txAppends[Len(txAppends)]>>

----------------------------------------------------------------------------
\* Further properties of the scan driver (specification Spec)

\* the next_tick a reader of the progress file finds
PersistedNext == load_state(stateFile, START_TICK).next.n

\* C13. Progress monotonicity: a first run starts at START_TICK; within one
\* process the values save_state writes go up by exactly 1 per write, starting
\* one above the loaded cursor; and the value on disk, once this process has
\* written it, is the first tick not yet fully processed.
C13_ProgressMonotone ==
    /\ (run = 0 /\ cursor0 # NoInt) => cursor0 = START_TICK
    /\ saveLog # <<>> => saveLog[1] = cursor0 + 1
    /\ \A i \in 1..(Len(saveLog) - 1) : saveLog[i + 1] = saveLog[i] + 1
    /\ (saveLog # <<>> /\ pc \in Running \ {"save_write"}) =>
           /\ stateFile.exists /\ stateFile.doc.j = "obj"
           /\ PersistedNext = saveLog[Len(saveLog)]
           /\ PersistedNext = tick
    /\ pc = "done" /\ saveLog # <<>> => PersistedNext = END_TICK + 1

\* a first run that wrote 2 and then 3
C13_Witness ==
    /\ run = 0
    /\ cursor0 = START_TICK
    /\ saveLog = <<2, 3>>
    /\ pc = "done"
    /\ PersistedNext = 3

----------------------------------------------------------------------------
\* Further properties of one run on arbitrary file contents (SpecInput)

\* C14 as stated. Empty-range boundary: whenever START_TICK > END_TICK a run
\* of scan() fetches no tick, writes no progress and appends no match.
C14_Original ==
    START_TICK > END_TICK => (fetchLog = <<>> /\ saveLog = <<>> /\ runAppends = 0)

\* the progress file yields the default cursor
DefaultsToStart(file) ==
    \/ ~file.exists
    \/ file.doc.j = "invalid"
    \/ file.doc.j = "obj" /\ ~file.doc.has_next

\* C14. Empty-range boundary: whenever START_TICK > END_TICK and the cursor
\* scan() loads (START_TICK for a missing or unparseable progress file or one
\* without next_tick, else its integer next_tick) is above END_TICK, the run
\* fetches no tick, writes no progress, appends no match and finishes.
C14_EmptyRange ==
    /\ (START_TICK > END_TICK /\ pc # "start" /\ fetchLog = <<>> /\ DefaultsToStart(stateFile)) =>
           cursor0 = START_TICK
    /\ (START_TICK > END_TICK /\ cursor0 # NoInt /\ cursor0 > END_TICK) =>
           /\ pc \in {"loop", "done"}
           /\ tick = cursor0
           /\ fetchLog = <<>>
           /\ saveLog = <<>>
           /\ runAppends = 0
           /\ reqCount = 0

\* an empty configured range and no progress file: the run is over, having
\* done nothing
C14_Witness ==
    /\ START_TICK > END_TICK
    /\ stateFile = AbsentFile
    /\ pc = "done"
    /\ cursor0 = START_TICK
    /\ fetchLog = <<>>
    /\ saveLog = <<>>

----------------------------------------------------------------------------
\* Further properties of the decoder (specification SpecDecode)

\* the bytes of a valid hex string
RawBytes == unhexlify(input_hex).raw

ValidHex == dec_result.status = "called" /\ unhexlify(input_hex).exc = "none"

\* the k-th 8-byte stride counted from the end of raw, as a number
StrideFromEnd(raw, k) ==
    int_from_bytes_little(SubSeq(raw, Len(raw) - AMOUNT_WIDTH * k + 1,
                                 Len(raw) - AMOUNT_WIDTH * (k - 1)))

\* the length of the longest run of plausible strides at the end of raw
TailCount(raw) ==
    CHOOSE n \in 0..(Len(raw) \div AMOUNT_WIDTH) :
        /\ \A k \in 1..n : Plausible(StrideFromEnd(raw, k))
        /\ \/ n = Len(raw) \div AMOUNT_WIDTH
           \/ ~Plausible(StrideFromEnd(raw, n + 1))

\* the bytes in front of the amount block
BeforeBlock(raw) == Len(raw) - AMOUNT_WIDTH * TailCount(raw)

\* C15. Short recipient block: when the tail scan finds n >= 1 amounts but
\* fewer than 32 * n bytes precede them, decode_qutil_outputs returns the
\* empty list; the slice raw[amt_start - 32n : amt_start] never has length
\* 32 * n in that case, negative start index or not.
C15_ShortBlock ==
    (ValidHex /\ TailCount(RawBytes) >= 1
        /\ BeforeBlock(RawBytes) < RECIPIENT_WIDTH * TailCount(RawBytes)) =>
        /\ dec_result.exc = "none"
        /\ dec_result.out = <<>>
        /\ tail_result.ret[1] = BeforeBlock(RawBytes)
        /\ tail_result.ret[2] = TailCount(RawBytes)
        /\ Len(PySlice(RawBytes, tail_result.ret[1] - RECIPIENT_WIDTH * tail_result.ret[2],
                       tail_result.ret[1])) # RECIPIENT_WIDTH * tail_result.ret[2]

\* two amounts found behind 27 bytes: the start index -37 wraps to 6 and the
\* slice has 21 bytes
C15_Witness ==
    /\ ValidHex
    /\ tail_result.ret[2] = 2
    /\ tail_result.ret[1] = 27
    /\ Len(PySlice(RawBytes, tail_result.ret[1] - RECIPIENT_WIDTH * tail_result.ret[2],
                   tail_result.ret[1])) = 21
    /\ dec_result.out = <<>>

\* C16. Tail scan: find_tail_amounts returns the longest run of plausible
\* 8-byte strides at the end of the payload, in payload order, with start
\* index len(raw) - 8n; with fewer than 8 bytes or an implausible last stride
\* n = 0 and decode_qutil_outputs returns the empty list.
C16_TailScan ==
    ValidHex =>
        LET raw == RawBytes
            n   == TailCount(raw)
        IN  /\ tail_result.called
            /\ tail_result.ret[2] = n
            /\ tail_result.ret[1] = Len(raw) - AMOUNT_WIDTH * n
            /\ tail_result.ret[3] = [k \in 1..n |-> StrideFromEnd(raw, n - k + 1)]
            /\ \A k \in 1..n : Plausible(tail_result.ret[3][k])
            /\ (Len(raw) < AMOUNT_WIDTH \/ ~Plausible(StrideFromEnd(raw, 1))) =>
                   (n = 0 /\ dec_result.exc = "none" /\ dec_result.out = <<>>)

\* a run of two different amounts, stopped by an implausible stride
C16_Witness ==
    /\ ValidHex
    /\ tail_result.ret[2] = 2
    /\ tail_result.ret[3][1] # tail_result.ret[3][2]
    /\ tail_result.ret[1] >= AMOUNT_WIDTH
    /\ ~Plausible(StrideFromEnd(RawBytes, 3))

\* C20. Decoder output shape: a non-empty result has one recipient per
\* amount found; recipient i is the i-th 32-byte block of the 32 * n bytes
\* right in front of the amount block, whatever precedes them; every amount
\* is the value of its stride and satisfies 0 < amount < 10^12.
C20_OutputShape ==
    (dec_result.status = "called" /\ dec_result.out # <<>>) =>
        LET raw   == RawBytes
            n     == TailCount(raw)
            first == BeforeBlock(raw) - RECIPIENT_WIDTH * n
        IN  /\ ValidHex
            /\ n >= 1
            /\ first >= 0
            /\ Len(dec_result.out) = n
            /\ \A i \in 1..n :
                   /\ Len(dec_result.out[i]) = 2
                   /\ Len(dec_result.out[i][1]) = RECIPIENT_WIDTH
                   /\ dec_result.out[i][1] =
                          SubSeq(raw, first + RECIPIENT_WIDTH * (i - 1) + 1,
                                 first + RECIPIENT_WIDTH * i)
                   /\ dec_result.out[i][2] = StrideFromEnd(raw, n - i + 1)
                   /\ Plausible(dec_result.out[i][2])

\* two pairs decoded from behind a prefix that is not part of the result
C20_Witness ==
    /\ dec_result.status = "called"
    /\ Len(dec_result.out) = 2
    /\ in_shape.prefix # <<>>
    /\ BeforeBlock(RawBytes) > RECIPIENT_WIDTH * 2
    /\ dec_result.out[1][1] # dec_result.out[2][1]

----------------------------------------------------------------------------
\* Duplicates in the match store (specification Spec)

\* the records a reader of the results file finds
Records == Held(resultsFile).items

\* what identifies a payout in a record
PayoutKey(r) == <<r.tick, r.txId, r.pubkey_hex, r.amount>>

\* C17. Duplicate on resume: a process that was never interrupted fetches
\* each tick once, in increasing order, and the match store holds exactly one
\* record per append_match call, the latest ones being those of the current
\* transaction: each matching payout is recorded once.  (A process killed
\* between an append and the save of its tick leaves a store in which the
\* restarted scan records the same payout again: C17_Witness.)
C17_AppendOnce ==
    (run = 0 /\ pc \in (Running \cup {"done", "crashed"}) \ {"start", "append_write"}) =>
        /\ \A i, j \in 1..Len(fetchLog) : i < j => fetchLog[i] < fetchLog[j]
        /\ Len(Records) = runAppends
        /\ Len(txAppends) <= Len(Records)
        /\ SubSeq(Records, Len(Records) - Len(txAppends) + 1, Len(Records)) = txAppends

\* the restarted scan found the progress file as the killed process left
\* it, fetched tick 1 again, and the store now holds the same payout twice,
\* recorded by the two processes
C17_Witness ==
    /\ run = 1
    /\ ~fellBack
    /\ 1 \notin completed
    /\ fetchLog = <<1>>
    /\ \E i, j \in 1..Len(Records) :
           /\ i < j
           /\ PayoutKey(Records[i]) = PayoutKey(Records[j])
           /\ Records[i].tick = 1
           /\ Records[i].found_at = 0
           /\ Records[j].found_at = 1

----------------------------------------------------------------------------
\* Properties of polite_get's sleeps (specification SpecBackoff)

\* the latest fault was retried or is being slept on, not raised for an
\* exhausted budget
WithinBudget == bo_last.cause \in {"exception", "5xx", "429"} /\ ~Exhausted(bo_attempt)

\* float() accepts the Retry-After header of the latest 429
RetryAfterParses ==
    bo_last.header.present /\ ParseFloat(bo_last.header.text).exc = "none"

\* C18. Backoff duration: before retry k after a network failure, a 5xx, or
\* a 429 without a parseable Retry-After, polite_get sleeps
\* min(30, 2^k + jitter) seconds with jitter in [0, 1), never more than 30;
\* after a 429 with a parseable Retry-After it sleeps that duration and
\* retries; a later 2xx makes the call return without raising.
C18_BackoffDuration ==
    /\ (WithinBudget /\ (bo_last.cause # "429" \/ ~RetryAfterParses)) =>
           /\ bo_last.from = "exponential"
           /\ \E jitter \in 0..9 : bo_last.tenths = Min(300, 10 * (2 ^ bo_attempt) + jitter)
           /\ bo_last.tenths <= 300
           /\ bo_pc \in {"request", "returned"}
    /\ (WithinBudget /\ bo_last.cause = "429" /\ RetryAfterParses) =>
           /\ bo_last.from = "retry-after"
           /\ bo_last.tenths = ParseFloat(bo_last.header.text).tenths
           /\ bo_last.exc = "none"
           /\ bo_pc \in {"request", "returned"}
    /\ bo_pc = "returned" => (bo_last.exc = "none" /\ bo_last.status < 400)

----------------------------------------------------------------------------
\* Termination of one run (specification SpecInput)

\* C19. Scan termination: from any integer cursor T and whatever the API
\* delivers, a run of scan() that has ended has reached Done, after exactly
\* max(0, END_TICK - T + 1) iterations, each of which moved the cursor by one.
C19_Termination ==
    /\ (cursor0 # NoInt /\ pc \in Running \ {"start"}) =>
           tick \in {cursor0 + Len(saveLog), cursor0 + Len(saveLog) + 1}
    /\ (cursor0 # NoInt /\ pc \in {"done", "crashed"}) =>
           /\ pc = "done"
           /\ Len(fetchLog) = Max(0, END_TICK - cursor0 + 1)
           /\ Len(saveLog) = Len(fetchLog)
           /\ tick = cursor0 + Len(fetchLog)

====
